---- MODULE Spec2Model ----
(***************************************************************************)
(* Model of the scan engine of the scanning NV magnetometer                *)
(* (src/logic/scanning_magnetometry_logic.py, class MagnetometerLogic).    *)
(*                                                                         *)
(* Threads of the program:                                                 *)
(*  - the logic thread: it runs the queued slots (start_scanning,          *)
(*    start_scanner, resume_scanning, resume_scanner, stop_scanning,        *)
(*    _scan_line, treat_data, move_after_scan_pixel) one after the other;  *)
(*    `queue` is its event queue (every connection is a QueuedConnection). *)
(*  - one worker thread per scan_pixel call (Thread(target=scan_pixel)).   *)
(*  - one worker thread per _hpix_end/_vpix_end call.                      *)
(*  - the GUI thread: it queues the commands of the operator (start, stop, *)
(*    resume, set_meas_mode) to the logic thread and calls correct_topo,   *)
(*    moveto and set_position itself.                                      *)
(* Indices are 0-based as in the source: line_position = <<x, y>> is       *)
(* line_position[0], line_position[1] of the source; pl_image[y, x, ch]    *)
(* is pl_image.px[<<y, x>>][ch + 1].                                       *)
(***************************************************************************)
EXTENDS Integers, Sequences, FiniteSets, TLC

VARIABLES
    module_state,     \* "idle" | "locked"          (self.module_state())
    stopRequested,    \* self.stopRequested
    line_position,    \* self.line_position  <<x, y>>
    current_position, \* self.current_position <<x, y>> (positions, not indices)
    pl_image,         \* self.pl_image with self._X, self._Y, self.topo_corr and
                      \* the lengths of self._return_X, self._return_Y:
                      \* [nx, ny, nch, px, corr, ret]
    meas_mode,        \* self.meas_mode
    incr,             \* self.incr
    image_size,       \* self.image_size
    scan_mode,        \* self.scan_mode "_hpix" | "_vpix"
    resolution,       \* self.resolution <<x_res, y_res>>
    timer_set,        \* self.start_time exists (set by start_scanning only)
    hw,               \* hardware: [clock, scanner, counter, mw]
    queue,            \* queued slot calls of the logic thread
    acqT,             \* running scan_pixel threads, by stage
    endT,             \* running _hpix_end/_vpix_end threads, by stage
    sigStopScan,      \* sigStopScan emissions so far: [final, other]
    temp,             \* the scratch spectrum log (self.temp), fullb only
    sweep,            \* the frequency window of fullb, its tracker and its pixel
                      \* loop (see on_activate_sweep)
    conf,             \* the scan parameters: [range, return_slowness,
                      \* clock_frequency, duration] (see on_activate_conf)
    env,              \* what the environment may still do: [events, faults]
    hist              \* history (what happened so far), read by the properties only;
                      \* hist.orient: scan_mode when the scan was started (or
                      \* resumed without being paused);
                      \* hist.unlocks: the module_state.unlock() calls of the last
                      \* start_scanner/resume_scanner call; hist.refused: a setter
                      \* of the scan parameters has logged that the logic is locked;
                      \* hist.shown: the GUI was handed the array self.pl_image
                      \* by sigPlotsUpdated (update_plots keeps views of it)

vars == <<module_state, stopRequested, line_position, current_position, pl_image,
          meas_mode, incr, image_size, scan_mode, resolution, timer_set, hw,
          queue, acqT, endT, sigStopScan, temp, sweep, conf, env, hist>>

----------------------------------------------------------------------------
(* Bounds of the model *)

\* x resolutions are 2, 4, .., 2*MaxHalfX; y resolutions 2, .., 2*MaxHalfY
MaxHalfX == 1
MaxHalfY == 1
\* the same for the scans that are left alone (SpecScan)
ScanHalfX == 3
ScanHalfY == 2
\* events of the environment in one behaviour: commands of the operator (start,
\* stop/pause, resume) and hardware calls that fail
MaxEvents == 3
\* hardware calls that fail in one behaviour
MaxFaults == 1
\* scan_pixel threads started in one behaviour, beyond those of one full scan
ExtraAcq == 1
\* the image of the runs with configuration and positioning commands (SpecOps)
\* is 2*OpsHalfX by 2*OpsHalfY, and the operator issues OpsEvents commands
OpsHalfX == 2
OpsHalfY == 1
OpsEvents == 2
\* the pixel loop of fullb with its frequency window (SpecSweep): the pixels it
\* acquires and the changes of parameters of the operator
MaxPixels == 2
SweepEvents == 2

\* SpecConf: the commands of the operator
ConfEvents == 3

----------------------------------------------------------------------------
(* Data *)

Modes == {"quenching", "isob", "fullb"}
ScanModes == {"_hpix", "_vpix"}

\* set_meas_mode: image_size and incr of a mode
ImageSizeOf(m) == IF m = "quenching" THEN 5 ELSE IF m = "isob" THEN 7 ELSE 8
IncrOf(m) == IF m = "quenching" THEN 2 ELSE 1

\* the position grid: self._X[x], self._Y[y] (np.linspace over the scan range).
\* Positions are symbolic: x positions 10, 11, .. and y positions 20, 21, ..
XOrigin == 10
YOrigin == 20
XGrid(x) == XOrigin + x
YGrid(y) == YOrigin + y

Zeros(n) == [i \in 1..n |-> 0]

\* np.linspace(x[0], x[1], num): the distance of two neighbours (the ranges of
\* the model are multiples of num - 1); the image starts at (XOrigin, YOrigin)
Pitch(range, num) == IF num > 1 THEN range \div (num - 1) ELSE 0

\* len(np.arange(a, b, step)), step > 0
arange_len(a, b, step) == IF b > a THEN (b - a + step - 1) \div step ELSE 0

\* the lengths of self._return_X and self._return_Y, the arrays of the retrace
\* line: np.arange(self._X[0], self._X[-1], self.return_slowness)
return_arrays(res) ==
    <<arange_len(0, (res[1] - 1) * Pitch(conf.range[1], res[1]), conf.return_slowness),
      arange_len(0, (res[2] - 1) * Pitch(conf.range[2], res[2]), conf.return_slowness)>>

\* initialize_image that leaves channels 0 and 1 at zero
initialize_image_blank(res, nch) ==
    [nx |-> res[1], ny |-> res[2], nch |-> nch, corr |-> 0, ret |-> return_arrays(res),
     px |-> [p \in (0..res[2]-1) \X (0..res[1]-1) |-> Zeros(nch)]]

\* initialize_image: zeros, channel 0 = X, channel 1 = Y; topo_corr = zeros (the
\* plane is uniform in the model: corr is its value at every pixel); ret: the
\* arrays of the retrace line
initialize_image(res, nch) ==
    [nx |-> res[1], ny |-> res[2], nch |-> nch, corr |-> 0, ret |-> return_arrays(res),
     px |-> [p \in (0..res[2]-1) \X (0..res[1]-1) |->
               [Zeros(nch) EXCEPT ![1] = XGrid(p[2] * Pitch(conf.range[1], res[1])),
                                  ![2] = YGrid(p[1] * Pitch(conf.range[2], res[2]))]]]

InImage(lp, img) == lp[1] \in 0..img.nx-1 /\ lp[2] \in 0..img.ny-1

\* pl_image[y, x, 0:2]
PosAt(lp, img) == <<img.px[<<lp[2], lp[1]>>][1], img.px[<<lp[2], lp[1]>>][2]>>

\* what the hardware reads at a pixel: the samples are opaque to the engine, the
\* model gives each quantity a value of its own
TopoSample == 1       \* the topography input
SignalSample == 5     \* the PL of quenching, the dip frequency of fullb
Counts1 == 7          \* the counts at the first frequency
Counts2 == 3          \* the counts at the second frequency

\* data handed to treat_data
Data == 1         \* an array of samples
Zeros1 == 0       \* np.zeros(1), the unused data_isob
Sentinel == -1    \* np.array([[-1.]]), the fault value of scan_line
None == -2        \* what scan_odmr_line returns on a fault

Ev(s, a, b) == [sig |-> s, a |-> a, b |-> b, m |-> ""]
Sig(s) == Ev(s, 0, 0)
\* sigScanPixelOver(data, data_isob), with the branch of scan_pixel that made it
EvData(m, a, b) == [sig |-> "treat_data", a |-> a, b |-> b, m |-> m]

\* the pixels one full scan acquires
ScanLength(img, step) == (img.nx * img.ny) \div step

----------------------------------------------------------------------------
(* Threads *)

\* stages of a scan_pixel thread: the hardware call it is waiting for
\*   pix0/pix1/pix2: scan_line over the 0, 1 or 2 points of the quenching slice
\*   isob: get_odmr_counts of the two frequencies
\*   sweep: the frequency sweep of fullb;  twofreq: the iso-B read of fullb
AcqStages == {"pix0", "pix1", "pix2", "isob", "sweep", "twofreq"}

\* stages of a _hpix_end ("h") or _vpix_end ("v") thread
\*   incr: before line_position[fast] += incr     check: before the end-of-line test
\*   retrace: inside return_h/return_v
EndStages == {"h", "v"} \X {"incr", "check", "retrace"}

Inc(bag, s) == [bag EXCEPT ![s] = @ + 1]
Dec(bag, s) == [bag EXCEPT ![s] = @ - 1]
Count(bag, S) == LET RECURSIVE sum(_)
                     sum(T) == IF T = {} THEN 0
                               ELSE LET t == CHOOSE t \in T : TRUE
                                    IN bag[t] + sum(T \ {t})
                 IN sum(S)

\* a hardware call may fail while the budget of faults lasts
CanFail(e) == e.events > 0 /\ e.faults > 0
Outcomes(failures) == {"ok"} \cup (IF CanFail(env) THEN failures ELSE {})
Spend(e, o) == IF o = "ok" THEN e ELSE [events |-> e.events - 1, faults |-> e.faults - 1]
Faulted(h, o) == IF o = "ok" THEN h ELSE [h EXCEPT !.fault = TRUE]
Raised(h, b) == IF b THEN [h EXCEPT !.exc = TRUE] ELSE h

----------------------------------------------------------------------------
(* The frequency window of fullb. Frequencies are counted in units of 5 MHz: *)
(* the defaults of the status variables and the values the operator enters   *)
(* are even numbers of them, so that half a span is a whole number.          *)

\* the status variables as declared: 2870, 2900, 30, 60, 2800, 2940, 2920 MHz
StatusVars == [mw_start |-> 574, mw_stop |-> 580, mw_step |-> 6, mw_step_hf |-> 12,
               min_fullb |-> 560, max_fullb |-> 588, number_sweeps |-> 1,
               threshold |-> 584]
\* 2870 MHz
resonance_frequency == 574

\* the constraints of the microwave source (get_hw_constraints): frequencies
\* from 10 MHz to 6 GHz, steps from 10 MHz to 6 GHz
HwConstraints == [min_frequency |-> 2, max_frequency |-> 1200,
                  min_step |-> 2, max_step |-> 1200]

in_range(v, lower, upper) == IF v > upper THEN upper ELSE IF v < lower THEN lower ELSE v
frequency_in_range(f) == in_range(f, HwConstraints.min_frequency, HwConstraints.max_frequency)
step_in_range(d) == in_range(d, HwConstraints.min_step, HwConstraints.max_step)

\* np.rint(n / d) for d > 0: the nearest integer, a half goes to the even one
Rint(n, d) ==
    LET q == n \div d
        r == n % d
    IN IF 2 * r < d THEN q
       ELSE IF 2 * r > d THEN q + 1
       ELSE IF q % 2 = 0 THEN q ELSE q + 1

\* int(np.rint((mw_stop - mw_start) / mw_step)) + 1
line_number_of(w) == Rint(w.mw_stop - w.mw_start, w.mw_step) + 1

\* on_activate: the window of the ODMR logic is set from the status variables,
\* freq1 and freq2 from that window, line_number = 2. The fields after
\* line_number are the position of the pixel loop of fullb and what it did:
\*   pc: "idle" between two pixels, "treat" when sigScanPixelOver is queued,
\*       "dead" when the scan_pixel thread or treat_data raised
\*   data, den: data[0] as the sum of the reads and the number it is divided by
\*   isob: data_isob is an array (not None)
\*   n: pixels started     sweeps: sweeps made for the last pixel
\*   requested: samples asked for in its sweep     used: the window it swept
\*   tainted: a read of its sweep held the sentinel
\*   fresh: the window was last set by the tracker     freq_min: its dip
on_activate_sweep ==
    LET o == [mw_start |-> frequency_in_range(StatusVars.mw_start),
              mw_stop |-> frequency_in_range(StatusVars.mw_stop),
              mw_step |-> step_in_range(StatusVars.mw_step)]
    IN [mw_start |-> StatusVars.mw_start, mw_stop |-> StatusVars.mw_stop,
        mw_step |-> StatusVars.mw_step,
        mw_step_hf |-> step_in_range(StatusVars.mw_step_hf),
        min_fullb |-> frequency_in_range(StatusVars.min_fullb),
        max_fullb |-> frequency_in_range(StatusVars.max_fullb),
        threshold |-> frequency_in_range(StatusVars.threshold),
        number_sweeps |-> StatusVars.number_sweeps,
        odmr |-> o, freq1 |-> o.mw_start, freq2 |-> o.mw_stop, line_number |-> 2,
        pc |-> "idle", data |-> <<>>, den |-> 1, isob |-> TRUE,
        n |-> 0, sweeps |-> 0, requested |-> 0,
        used |-> [mw_start |-> 0, mw_stop |-> 0], tainted |-> FALSE,
        fresh |-> FALSE, freq_min |-> 0]

\* set_sweep_parameters_fullb: stop and start are swapped when stop <= start;
\* the window of the ODMR logic, its copy, line_number and the other parameters
set_sweep_parameters_fullb(s, start, stop, min_fullb, max_fullb, step, mw_step_hf, number_sweeps, threshold) ==
    LET lo == IF stop <= start THEN stop ELSE start
        hi == IF stop <= start THEN start ELSE stop
        o == [mw_start |-> frequency_in_range(lo),
              mw_stop |-> frequency_in_range(hi),
              mw_step |-> frequency_in_range(step)]
    IN [s EXCEPT !.odmr = o,
                 !.mw_start = o.mw_start, !.mw_step = o.mw_step, !.mw_stop = o.mw_stop,
                 !.line_number = line_number_of(o),
                 !.min_fullb = frequency_in_range(min_fullb),
                 !.max_fullb = frequency_in_range(max_fullb),
                 !.threshold = frequency_in_range(threshold),
                 !.mw_step_hf = step_in_range(mw_step_hf),
                 !.number_sweeps = number_sweeps,
                 !.fresh = FALSE]

\* set_sweep_parameters_isob: freq1 and freq2 are swapped when freq2 <= freq1; the
\* window of the ODMR logic becomes the two frequencies, line_number = 2
set_sweep_parameters_isob(s, freq1, freq2) ==
    LET lo == IF freq2 <= freq1 THEN freq2 ELSE freq1
        hi == IF freq2 <= freq1 THEN freq1 ELSE freq2
        o == [mw_start |-> frequency_in_range(lo),
              mw_stop |-> frequency_in_range(hi),
              mw_step |-> step_in_range(hi - lo)]
    IN [s EXCEPT !.odmr = o, !.freq1 = o.mw_start, !.freq2 = o.mw_stop,
                 !.line_number = 2, !.fresh = FALSE]

\* the parameters of the engine's scans: a window of three points
ScanSweep ==
    set_sweep_parameters_fullb(on_activate_sweep, StatusVars.mw_start,
                               StatusVars.mw_start + 2 * StatusVars.mw_step,
                               StatusVars.min_fullb, StatusVars.max_fullb,
                               StatusVars.mw_step, StatusVars.mw_step_hf,
                               StatusVars.number_sweeps, StatusVars.threshold)

----------------------------------------------------------------------------
(* The scan parameters: range, resolution, return slowness, clock frequency *)

\* compute_scan_duration: self.duration = 1.8 * (fwd + bwd) as a fraction
\* <<numerator, denominator>>, with clock_frequency = 1 / time_clock
compute_scan_duration(c, res, line_number) ==
    LET k == IF meas_mode = "quenching" THEN 1
             ELSE IF meas_mode = "isob" THEN 2 ELSE 2 + line_number
        lines == IF scan_mode = "_hpix" THEN res[2] ELSE res[1]
        range == IF scan_mode = "_hpix" THEN c.range[1] ELSE c.range[2]
    IN <<18 * c.clock_frequency[2]
            * (k * res[1] * res[2] * c.return_slowness + lines * range),
         10 * c.clock_frequency[1] * c.return_slowness>>

\* the parameters of a scan of an image of unit pitch, with the duration shown
ScanConf(res, line_number) ==
    LET c == [range |-> <<res[1] - 1, res[2] - 1>>, return_slowness |-> 1,
              clock_frequency |-> <<1, 1>>, duration |-> <<0, 1>>]
    IN [c EXCEPT !.duration = compute_scan_duration(c, res, line_number)]

----------------------------------------------------------------------------
(* Init: the engine after activation, with the configuration (measurement   *)
(* mode, orientation, resolution) set while idle, which allocates the image *)
(* (set_meas_mode calls initialize_image); the scanner sits either on the   *)
(* first pixel of the image or elsewhere.                                   *)

BootState(hx, hy) ==
    /\ module_state = "idle"
    /\ stopRequested = FALSE
    /\ line_position = <<0, 0>>
    /\ current_position \in {<<XOrigin, YOrigin>>, <<XOrigin - 1, YOrigin - 1>>}
    /\ meas_mode \in Modes
    /\ incr = IncrOf(meas_mode)
    /\ image_size = ImageSizeOf(meas_mode)
    /\ scan_mode \in ScanModes
    /\ resolution \in {<<2 * i, 2 * j>> : i \in 1..hx, j \in 1..hy}
    /\ timer_set = FALSE
    /\ hw = [clock |-> FALSE, scanner |-> FALSE, counter |-> FALSE, mw |-> FALSE]
    /\ queue = <<>>
    /\ acqT = [s \in AcqStages |-> 0]
    /\ endT = [s \in EndStages |-> 0]
    /\ sigStopScan = [final |-> 0, other |-> 0]
    /\ temp = <<>>
    /\ hist = [nAcq |-> 0, fault |-> FALSE, exc |-> FALSE, sentinel |-> FALSE,
               moveFault |-> FALSE, cause |-> "none", idle |-> "fresh", sinceStop |-> 0,
               shown |-> FALSE, unlocks |-> 0, refused |-> FALSE,
               orient |-> ""]

Boot(hx, hy) ==
    /\ BootState(hx, hy)
    /\ conf = ScanConf(resolution, ScanSweep.line_number)
    /\ pl_image = initialize_image(resolution, image_size)
    /\ sweep = ScanSweep

\* the operator and the hardware do what the bounds allow
Init == Boot(MaxHalfX, MaxHalfY) /\ env = [events |-> MaxEvents, faults |-> MaxFaults]

----------------------------------------------------------------------------
(* The operator (GUI): its signals are queued to the logic thread *)

Command(s) ==
    /\ env.events > 0
    /\ queue' = Append(queue, Sig(s))
    /\ env' = [env EXCEPT !.events = @ - 1]
    /\ UNCHANGED <<conf, sweep, module_state, stopRequested, line_position, current_position,
                   pl_image, meas_mode, incr, image_size, scan_mode, resolution,
                   timer_set, hw, acqT, endT, sigStopScan, temp, hist>>

UserStart == Command("start_scanning")
UserStop == Command("stop_scanning")
UserResume == Command("resume_scanning")

----------------------------------------------------------------------------
(* stop_scanning and shift_indices, as functions of the state they change *)

\* the part of the state stop_scanning changes, while a handler runs
Cur == [sr |-> stopRequested, lp |-> line_position, cp |-> current_position,
        sig |-> sigStopScan, h |-> hist, e |-> env, raised |-> FALSE]

Apply(s) ==
    /\ stopRequested' = s.sr
    /\ line_position' = s.lp
    /\ current_position' = s.cp
    /\ sigStopScan' = s.sig
    /\ hist' = s.h
    /\ env' = s.e

\* stopRequested = True, with who asked for it (kept for the properties)
SetStop(s, who) ==
    [s EXCEPT !.sr = TRUE,
              !.h = IF s.sr THEN @ ELSE [@ EXCEPT !.cause = who, !.sinceStop = 0]]

\* shift_indices: an index equal to the size is brought back by one
shift_indices(lp, img) ==
    <<IF lp[1] = img.nx THEN lp[1] - 1 ELSE lp[1],
      IF lp[2] = img.ny THEN lp[2] - 1 ELSE lp[2]>>

\* stop_scanning(end): the flag is set when the module is locked; shift_indices
\* raises IndexError when the shifted indices are still outside the image, and
\* then nothing is emitted
stop_scanning(s, end, who) ==
    LET s1 == IF module_state = "locked" THEN SetStop(s, who) ELSE s
        lp == shift_indices(s.lp, pl_image)
        ok == InImage(lp, pl_image)
    IN [s1 EXCEPT !.lp = lp,
                  !.cp = IF ok THEN PosAt(lp, pl_image) ELSE @,
                  !.sig = IF ~ok THEN @
                          ELSE IF end THEN [@ EXCEPT !.final = @ + 1]
                          ELSE [@ EXCEPT !.other = @ + 1],
                  !.h = Raised(@, ~ok),
                  !.raised = ~ok]

\* the slot a next event of the logic thread is handed to
Next1(s) == queue # <<>> /\ Head(queue).sig = s

----------------------------------------------------------------------------
(* Slots of the logic thread *)

\* start_scanning: resets the cursor, asks for start_scanner
start_scanning ==
    /\ Next1("start_scanning")
    /\ line_position' = <<0, 0>>
    /\ temp' = IF meas_mode = "fullb" THEN <<>> ELSE temp
    /\ timer_set' = TRUE
    /\ conf' = [conf EXCEPT !.duration =
                              compute_scan_duration(conf, resolution, sweep.line_number)]
    /\ queue' = Append(Tail(queue), Sig("start_scanner"))
    /\ UNCHANGED <<sweep, module_state, stopRequested, current_position, pl_image, meas_mode,
                   incr, image_size, scan_mode, resolution, hw, acqT, endT,
                   sigStopScan, env, hist>>

\* resume_scanning: asks for resume_scanner
resume_scanning ==
    /\ Next1("resume_scanning")
    /\ queue' = Append(Tail(queue), Sig("resume_scanner"))
    /\ UNCHANGED <<conf, sweep, module_state, stopRequested, line_position, current_position,
                   pl_image, meas_mode, incr, image_size, scan_mode, resolution,
                   timer_set, hw, acqT, endT, sigStopScan, temp, env, hist>>

\* the hardware after arming went through
Armed(h) ==
    [clock |-> TRUE, scanner |-> TRUE,
     counter |-> IF meas_mode # "quenching" THEN TRUE ELSE h.counter,
     mw |-> IF meas_mode # "quenching" THEN TRUE ELSE h.mw]

\* sigPlotsUpdated.emit(self.pl_image, self.scanline, self.esr_line): the signal
\* carries the arrays themselves, and the GUI is handed self.pl_image
PlotsUpdated(h) == [h EXCEPT !.shown = TRUE]
\* initialize_image binds self.pl_image to a new array
Unshown(h) == [h EXCEPT !.shown = FALSE]

\* stopRequested = False at the top of start_scanner and resume_scanner
ClearStop(h) == [h EXCEPT !.cause = "none", !.sinceStop = 0]

\* the arming steps of start_scanner that can fail, in order
StartFailures == IF meas_mode = "quenching" THEN {"clock", "scanner"}
                 ELSE {"clock", "scanner", "counter", "mw"}

\* start_scanner
start_scanner ==
    /\ Next1("start_scanner")
    /\ stopRequested' = FALSE
    /\ IF module_state = "locked"
       THEN /\ queue' = Tail(queue)
            /\ hist' = [ClearStop(hist) EXCEPT !.unlocks = 0]
            /\ UNCHANGED <<module_state, pl_image, hw, env>>
       ELSE \E o \in Outcomes(StartFailures) :
            /\ hist' = [Unshown(Faulted(ClearStop(hist), o))
                          EXCEPT !.unlocks = IF o = "ok" THEN 0 ELSE 1,
                                 !.orient = IF o = "ok" THEN scan_mode ELSE @]
            /\ env' = Spend(env, o)
            /\ pl_image' = initialize_image(resolution, image_size)
            /\ module_state' = IF o = "ok" THEN "locked" ELSE "idle"
            /\ hw' = CASE o = "ok" -> Armed(hw)
                       [] o = "clock" -> hw
                       [] o = "scanner" -> [hw EXCEPT !.clock = FALSE]
                       [] o = "counter" -> [hw EXCEPT !.clock = TRUE, !.scanner = TRUE]
                       [] o = "mw" -> [hw EXCEPT !.clock = TRUE, !.scanner = TRUE,
                                                  !.counter = FALSE]
            /\ queue' = IF o = "ok" THEN Append(Tail(queue), Sig("scan_line"))
                        ELSE Tail(queue)
    /\ UNCHANGED <<conf, sweep, line_position, current_position, meas_mode, incr, image_size,
                   scan_mode, resolution, timer_set, acqT, endT, sigStopScan, temp>>

\* the arming steps of resume_scanner that can fail, in order
ResumeFailures == IF meas_mode = "quenching" THEN {"clock", "scanner"}
                  ELSE {"counter", "mw", "clock", "scanner"}

\* the module_state.unlock() calls of resume_scanner: the branch of the failed
\* counter start calls it twice (the second time on the idle module)
unlocks_of_resume(o) == IF o = "ok" THEN 0 ELSE IF o = "counter" THEN 2 ELSE 1

\* resume_scanner
resume_scanner ==
    /\ Next1("resume_scanner")
    /\ stopRequested' = FALSE
    /\ IF module_state = "locked"
       THEN /\ queue' = Tail(queue)
            /\ hist' = [ClearStop(hist) EXCEPT !.unlocks = 0]
            /\ UNCHANGED <<module_state, hw, env>>
       ELSE \E o \in Outcomes(ResumeFailures) :
            /\ hist' = [Faulted(ClearStop(hist), o)
                          EXCEPT !.unlocks = unlocks_of_resume(o),
                                 !.orient = IF o = "ok" /\ hist.idle # "user"
                                            THEN scan_mode ELSE @]
            /\ env' = Spend(env, o)
            /\ module_state' = IF o = "ok" THEN "locked" ELSE "idle"
            /\ hw' = CASE o = "ok" -> Armed(hw)
                       [] o = "counter" -> hw
                       [] o = "mw" -> [hw EXCEPT !.counter = FALSE]
                       [] o = "clock" ->
                            IF meas_mode # "quenching"
                            THEN [hw EXCEPT !.counter = TRUE, !.mw = TRUE] ELSE hw
                       [] o = "scanner" ->
                            IF meas_mode # "quenching"
                            THEN [hw EXCEPT !.counter = TRUE, !.mw = TRUE, !.clock = FALSE]
                            ELSE [hw EXCEPT !.clock = FALSE]
            /\ queue' = IF o = "ok" THEN Append(Tail(queue), Sig("scan_line"))
                        ELSE Tail(queue)
    /\ UNCHANGED <<conf, sweep, line_position, current_position, pl_image, meas_mode, incr,
                   image_size, scan_mode, resolution, timer_set, acqT, endT,
                   sigStopScan, temp>>

\* stop_scanning(end=False), the slot of the operator's stop/pause
stop_scanning_slot ==
    /\ Next1("stop_scanning")
    /\ Apply(stop_scanning(Cur, FALSE, "user"))
    /\ queue' = Tail(queue)
    /\ UNCHANGED <<conf, sweep, module_state, pl_image, meas_mode, incr, image_size, scan_mode,
                   resolution, timer_set, hw, acqT, endT, temp>>

\* kill_scanner: unlock, close scanner and clock; microwave and counter only when
\* the mode now selected is not quenching
kill_scanner(h) ==
    [clock |-> FALSE, scanner |-> FALSE,
     counter |-> IF meas_mode # "quenching" THEN FALSE ELSE h.counter,
     mw |-> IF meas_mode # "quenching" THEN FALSE ELSE h.mw]

\* the quenching slice line_position[fast] : line_position[fast] + 2, cut to the image
SliceLen(lp, img) ==
    LET i == IF scan_mode = "_hpix" THEN lp[1] ELSE lp[2]
        n == IF scan_mode = "_hpix" THEN img.nx ELSE img.ny
    IN IF i >= n THEN 0 ELSE IF i + 2 > n THEN n - i ELSE 2

\* scan_pixel reads its slice (quenching) when it starts: the first stage of the thread
AcqStart(lp, img) ==
    IF meas_mode = "quenching"
    THEN (IF SliceLen(lp, img) = 2 THEN "pix2"
          ELSE IF SliceLen(lp, img) = 1 THEN "pix1" ELSE "pix0")
    ELSE IF meas_mode = "isob" THEN "isob" ELSE "sweep"

\* reset_position: the number of points of start_line, the path from the
\* scanner to the first pixel; 0: start_line is not bound. An axis along which
\* the two positions are equal gives the single point of the first pixel.
start_line(cp, img) ==
    LET first == PosAt(<<0, 0>>, img)
        len(a, b) == IF a = b THEN 1
                     ELSE arange_len(IF a < b THEN a ELSE b, IF a < b THEN b ELSE a,
                                     conf.return_slowness)
        lsx == len(cp[1], first[1])
        lsy == len(cp[2], first[2])
    IN IF cp = first THEN 0 ELSE IF lsx > lsy THEN lsx ELSE lsy

\* reset_position: what its hardware call (or the missing start_line) gives
\*   skip: the cursor is not (0, 0)      unbound: start_line is not bound (NameError)
\*   ok, sentinel (a -1 sample), exc (the call raises)
ResetOutcomes ==
    IF line_position # <<0, 0>> THEN {"skip"}
    ELSE IF current_position = PosAt(<<0, 0>>, pl_image) THEN {"unbound"}
    ELSE Outcomes({"sentinel", "exc"})

\* reset_position and what _scan_line does with its result: on -1 it calls
\* stop_scanning(), emits sigNextLine and goes on; [s, emits]
reset_position(r) ==
    CASE r \in {"skip", "ok"} -> [s |-> Cur, emits |-> 0]
      [] r = "sentinel" ->
           [s |-> SetStop([Cur EXCEPT !.h = Faulted(@, r), !.e = Spend(@, r)], "fault"),
            emits |-> 1]
      [] r \in {"unbound", "exc"} ->
           LET o == IF r = "exc" THEN r ELSE "ok"
           IN [s |-> stop_scanning([Cur EXCEPT !.h = Raised(Faulted(@, o), TRUE),
                                               !.e = Spend(@, o)],
                                   FALSE, "fault"),
               emits |-> 1]

\* queue q with n more sigNextLine
RECURSIVE Emit(_, _)
Emit(q, n) == IF n = 0 THEN q ELSE Emit(Append(q, Sig("scan_line")), n - 1)

\* the scan_pixel thread is started
Spawn(s) ==
    [s EXCEPT !.h = [@ EXCEPT !.nAcq = @ + 1,
                              !.sinceStop = IF s.sr THEN @ + 1 ELSE @]]

\* _scan_line: the teardown when a stop is requested; else reset_position,
\* move_hpix/move_vpix and the start of the scan_pixel thread
scan_line ==
    /\ Next1("scan_line")
    /\ IF ~timer_set
       THEN \* self.start_time does not exist: AttributeError, the slot ends
            /\ queue' = Tail(queue)
            /\ hist' = Raised(hist, TRUE)
            /\ UNCHANGED <<module_state, stopRequested, line_position, current_position,
                           hw, sigStopScan, acqT, env>>
       ELSE IF stopRequested
       THEN \* teardown
            /\ module_state' = "idle"
            /\ hw' = kill_scanner(hw)
            /\ stopRequested' = FALSE
            /\ queue' = Tail(queue)
            /\ hist' = PlotsUpdated(
                          [hist EXCEPT !.idle = IF hist.cause = "none" THEN "fault"
                                                ELSE hist.cause,
                                       !.cause = "none", !.sinceStop = 0])
            /\ UNCHANGED <<line_position, current_position, sigStopScan, acqT, env>>
       ELSE /\ UNCHANGED <<module_state, hw>>
            /\ \E r \in ResetOutcomes :
               LET rp == reset_position(r)
                   s1 == rp.s
                   q1 == Emit(Tail(queue), rp.emits)
               IN IF ~InImage(s1.lp, pl_image)
                  THEN \* IndexError in move: the except branch of _scan_line
                       LET s2 == stop_scanning([s1 EXCEPT !.h = Raised(@, TRUE)], FALSE, "fault")
                       IN /\ Apply(s2)
                          /\ queue' = Emit(q1, IF s2.raised THEN 0 ELSE 1)
                          /\ UNCHANGED acqT
                  ELSE \E m \in {"ok", "exc"} :
                       /\ m = "exc" => CanFail(s1.e)
                       /\ IF m = "ok"
                          THEN /\ hist.nAcq < ScanLength(pl_image, incr) + ExtraAcq
                               /\ Apply([Spawn(s1) EXCEPT !.cp = PosAt(s1.lp, pl_image)])
                               /\ acqT' = Inc(acqT, AcqStart(s1.lp, pl_image))
                          ELSE \* _write_scanner_ao raises: move returns -1, the slot ends
                               /\ Apply([s1 EXCEPT !.cp = PosAt(s1.lp, pl_image),
                                                   !.h = [Raised(Faulted(@, m), TRUE)
                                                            EXCEPT !.moveFault = TRUE],
                                                   !.e = Spend(@, m)])
                               /\ UNCHANGED acqT
                       /\ queue' = q1
    /\ UNCHANGED <<conf, sweep, pl_image, meas_mode, incr, image_size, scan_mode, resolution,
                   timer_set, endT, temp>>

----------------------------------------------------------------------------
(* scan_pixel threads: the hardware call returns *)

\* what happened in a scan_pixel thread, for the history
Acquired(o, dropped) ==
    LET h1 == Raised(Faulted(hist, o), o = "exc" \/ dropped)
        h2 == IF o = "sentinel" THEN [h1 EXCEPT !.sentinel = TRUE] ELSE h1
    IN h2

\* quenching: scan_line(line, pixel_clock=True); the result is emitted unchecked
\*   ok: samples   sentinel: np.array([[-1.]])   exc: the call raises, the thread ends
scan_pixel_quenching(n) ==
    LET st == IF n = 2 THEN "pix2" ELSE IF n = 1 THEN "pix1" ELSE "pix0"
    IN /\ acqT[st] > 0
       /\ \E o \in Outcomes({"sentinel", "exc"}) :
            /\ acqT' = Dec(acqT, st)
            /\ hist' = Acquired(o, FALSE)
            /\ env' = Spend(env, o)
            /\ queue' = CASE o = "ok" -> Append(queue, EvData("quenching", Data, n))
                          [] o = "sentinel" -> Append(queue, EvData("quenching", Sentinel, n))
                          [] o = "exc" -> queue
       /\ UNCHANGED <<conf, sweep, module_state, stopRequested, line_position, current_position,
                      pl_image, meas_mode, incr, image_size, scan_mode, resolution,
                      timer_set, hw, endT, sigStopScan, temp>>

\* scan_odmr_line sets stopRequested on the sentinel and returns None
scan_odmr_line(o, h) ==
    IF o = "sentinel" THEN SetStop([Cur EXCEPT !.h = h], "fault") ELSE [Cur EXCEPT !.h = h]

\* isob: scan_odmr_line; its None is either refused by sigScanPixelOver (the
\* thread ends) or handed to treat_data
scan_pixel_isob ==
    /\ acqT["isob"] > 0
    /\ \E o \in Outcomes({"sentinel", "exc"}), emitted \in BOOLEAN :
         /\ o # "sentinel" => emitted
         /\ acqT' = Dec(acqT, "isob")
         /\ LET s == scan_odmr_line(o, Acquired(o, ~emitted))
            IN stopRequested' = s.sr /\ hist' = s.h
         /\ env' = Spend(env, o)
         /\ queue' = CASE o = "ok" -> Append(queue, EvData("isob", Data, Zeros1))
                       [] o = "sentinel" ->
                            IF emitted THEN Append(queue, EvData("isob", None, Zeros1))
                            ELSE queue
                       [] o = "exc" -> queue
    /\ UNCHANGED <<conf, sweep, module_state, line_position, current_position, pl_image, meas_mode,
                   incr, image_size, scan_mode, resolution, timer_set, hw, endT,
                   sigStopScan, temp>>

\* fullb, the sweep: on the sentinel scan_odmr_line sets stopRequested and returns
\* None, and len(data[0]) raises: the thread ends
scan_pixel_sweep ==
    /\ acqT["sweep"] > 0
    /\ \E o \in Outcomes({"sentinel", "exc"}) :
         /\ acqT' = IF o = "ok" THEN Inc(Dec(acqT, "sweep"), "twofreq")
                    ELSE Dec(acqT, "sweep")
         /\ LET s == scan_odmr_line(o, Acquired(o, o = "sentinel"))
            IN stopRequested' = s.sr /\ hist' = s.h
         /\ env' = Spend(env, o)
    /\ UNCHANGED <<conf, sweep, module_state, line_position, current_position, pl_image, meas_mode,
                   incr, image_size, scan_mode, resolution, timer_set, hw, queue,
                   endT, sigStopScan, temp>>

\* fullb, the iso-B read of the two frequencies: on the sentinel data_isob is None
scan_pixel_twofreq ==
    /\ acqT["twofreq"] > 0
    /\ \E o \in Outcomes({"sentinel", "exc"}), emitted \in BOOLEAN :
         /\ o # "sentinel" => emitted
         /\ acqT' = Dec(acqT, "twofreq")
         /\ LET s == scan_odmr_line(o, Acquired(o, ~emitted))
            IN stopRequested' = s.sr /\ hist' = s.h
         /\ env' = Spend(env, o)
         /\ queue' = CASE o = "ok" -> Append(queue, EvData("fullb", Data, Data))
                       [] o = "sentinel" ->
                            IF emitted THEN Append(queue, EvData("fullb", Data, None))
                            ELSE queue
                       [] o = "exc" -> queue
    /\ UNCHANGED <<conf, sweep, module_state, line_position, current_position, pl_image, meas_mode,
                   incr, image_size, scan_mode, resolution, timer_set, hw, endT,
                   sigStopScan, temp>>

----------------------------------------------------------------------------
(* treat_data *)

\* pl_image[y, x, ch] = v for the channels of w (a function channel -> value),
\* channel 2 being added to (+= sample - topo_corr[y, x])
WriteChannels(img, y, x, w) ==
    [img EXCEPT !.px[<<y, x>>] =
        [c \in 1..img.nch |->
            IF c - 1 \in DOMAIN w
            THEN (IF c - 1 = 2 THEN @[c] + w[c - 1] - img.corr ELSE w[c - 1])
            ELSE @[c]]]

\* the pixels of the quenching slice at lp
SlicePixels(lp, img) ==
    IF scan_mode = "_hpix"
    THEN {<<lp[2], x>> : x \in {i \in lp[1]..lp[1]+1 : i < img.nx}}
    ELSE {<<y, lp[1]>> : y \in {i \in lp[2]..lp[2]+1 : i < img.ny}}

\* quenching: channel 4 raw topography, channel 2 corrected topography, channel 3 PL
QuenchingData == (4 :> TopoSample) @@ (2 :> TopoSample) @@ (3 :> SignalSample)

RECURSIVE WriteAll(_, _, _)
WriteAll(img, P, w) ==
    IF P = {} THEN img
    ELSE LET p == CHOOSE p \in P : TRUE
         IN WriteAll(WriteChannels(img, p[1], p[2], w), P \ {p}, w)

\* the index (not the slice) of the quenching write is inside the image
QuenchingIndexOk(lp, img) ==
    IF scan_mode = "_hpix" THEN lp[2] \in 0..img.ny-1 ELSE lp[1] \in 0..img.nx-1

\* isob: channel 6 raw topography, 2 corrected topography, 3 PL1 - PL2, 4 PL1, 5 PL2
IsobData == (6 :> TopoSample) @@ (2 :> TopoSample) @@ (3 :> Counts1 - Counts2)
            @@ (4 :> Counts1) @@ (5 :> Counts2)

\* fullb: channel 7 raw topography, 2 corrected topography, 3 the frequency of the dip
FullbData == (7 :> TopoSample) @@ (2 :> TopoSample) @@ (3 :> SignalSample)
\* fullb, from data_isob: channel 4 PL1 - PL2, 5 PL1, 6 PL2
FullbIsobData == (4 :> Counts1 - Counts2) @@ (5 :> Counts1) @@ (6 :> Counts2)

\* the image after treat_data(a, b), and whether it ran to its end (emits
\* sigFinishedDataTreatment) or raised
treat_data_result(a, b) ==
    LET lp == line_position
        img == pl_image
    IN CASE meas_mode = "quenching" ->
              \* data[:, 1] of the sentinel raises; a sample count that does not
              \* broadcast to the slice raises
              IF a = Data /\ QuenchingIndexOk(lp, img)
                 /\ (b = SliceLen(lp, img) \/ b = 1)
              THEN [img |-> WriteAll(img, SlicePixels(lp, img), QuenchingData),
                    done |-> TRUE, log |-> temp]
              ELSE [img |-> img, done |-> FALSE, log |-> temp]
         [] meas_mode = "isob" ->
              IF a = Data /\ InImage(lp, img)
              THEN [img |-> WriteChannels(img, lp[2], lp[1], IsobData),
                    done |-> TRUE, log |-> temp]
              ELSE [img |-> img, done |-> FALSE, log |-> temp]
         [] meas_mode = "fullb" ->
              IF a = Data /\ InImage(lp, img)
              THEN LET first == WriteChannels(img, lp[2], lp[1], FullbData)
                       \* x = pl_image[.., 0]; y = pl_image[.., 0]
                       rec == <<PosAt(lp, img)[1], PosAt(lp, img)[1]>>
                   IN IF b = Data
                      THEN [img |-> WriteChannels(first, lp[2], lp[1], FullbIsobData),
                            done |-> TRUE, log |-> Append(temp, rec)]
                      ELSE \* data_isob[0] of None raises after the first writes
                           [img |-> first, done |-> FALSE, log |-> Append(temp, rec)]
              ELSE [img |-> img, done |-> FALSE, log |-> temp]

\* what treat_data can do with the data it is handed: data acquired in the mode
\* now selected is treated as that mode's branch treats it; data acquired in
\* another mode (set_meas_mode ran in between) have the shape of that other
\* mode, and the branch now selected raises or writes depending on the shape
TreatResults ==
    IF Head(queue).m = meas_mode
    THEN {treat_data_result(Head(queue).a, Head(queue).b)}
    ELSE {treat_data_result(a, b) : a \in {Data, Sentinel}, b \in {0, 1, 2, None}}

treat_data ==
    /\ Next1("treat_data")
    /\ \E r \in TreatResults :
          /\ pl_image' = r.img
          /\ temp' = r.log
          /\ queue' = IF r.done THEN Append(Tail(queue), Sig("move_after"))
                      ELSE Tail(queue)
          /\ hist' = Raised(hist, ~r.done)
    /\ UNCHANGED <<conf, sweep, module_state, stopRequested, line_position, current_position,
                   meas_mode, incr, image_size, scan_mode, resolution, timer_set, hw,
                   acqT, endT, sigStopScan, env>>

\* move_after_scan_pixel: starts the _hpix_end or _vpix_end thread
move_after_scan_pixel ==
    /\ Next1("move_after")
    /\ queue' = Tail(queue)
    /\ endT' = Inc(endT, <<IF scan_mode = "_hpix" THEN "h" ELSE "v", "incr">>)
    /\ UNCHANGED <<conf, sweep, module_state, stopRequested, line_position, current_position,
                   pl_image, meas_mode, incr, image_size, scan_mode, resolution,
                   timer_set, hw, acqT, sigStopScan, temp, env, hist>>

----------------------------------------------------------------------------
(* _hpix_end / _vpix_end threads *)

Fast(o, lp) == IF o = "h" THEN lp[1] ELSE lp[2]
Slow(o, lp) == IF o = "h" THEN lp[2] ELSE lp[1]
FastSize(o, img) == IF o = "h" THEN img.nx ELSE img.ny
SlowSize(o, img) == IF o = "h" THEN img.ny ELSE img.nx
MkLp(o, fast, slow) == IF o = "h" THEN <<fast, slow>> ELSE <<slow, fast>>

\* the except branch of the thread: stop_scanning(); sigNextLine.emit()
\* (nothing is emitted when stop_scanning raises in its turn)
EndExcept(s, o, stage) ==
    LET r == stop_scanning([s EXCEPT !.h = Raised(@, TRUE), !.raised = FALSE],
                           FALSE, "fault")
    IN /\ Apply(r)
       /\ queue' = Emit(queue, IF r.raised THEN 0 ELSE 1)
       /\ endT' = Dec(endT, <<o, stage>>)

\* the scan line is prepared from the row (column) of the cursor, the plots are
\* emitted, and line_position[fast] += incr
pix_end_incr(o) ==
    /\ endT[<<o, "incr">>] > 0
    /\ IF Slow(o, line_position) \in 0..SlowSize(o, pl_image)-1
       THEN /\ line_position' = MkLp(o, Fast(o, line_position) + incr,
                                     Slow(o, line_position))
            /\ endT' = Inc(Dec(endT, <<o, "incr">>), <<o, "check">>)
            /\ hist' = PlotsUpdated(hist)
            /\ UNCHANGED <<stopRequested, current_position, sigStopScan, queue, env>>
       ELSE EndExcept(Cur, o, "incr")
    /\ UNCHANGED <<conf, sweep, module_state, pl_image, meas_mode, incr, image_size, scan_mode,
                   resolution, timer_set, hw, acqT, temp>>

\* the end-of-line test: inside a line, sigNextLine; at the end of a line the
\* cursor rolls over, and then either the scan ends (stop_scanning(end=True);
\* line_position = [0, 0]; sigNextLine.emit()) or the retrace starts
pix_end_check(o) ==
    /\ endT[<<o, "check">>] > 0
    /\ IF Fast(o, line_position) < FastSize(o, pl_image)
       THEN /\ queue' = Append(queue, Sig("scan_line"))
            /\ endT' = Dec(endT, <<o, "check">>)
            /\ UNCHANGED <<stopRequested, line_position, current_position,
                           sigStopScan, env, hist>>
       ELSE LET rolled == MkLp(o, 0, Slow(o, line_position) + 1)
            IN IF Slow(o, rolled) < SlowSize(o, pl_image)
               THEN /\ line_position' = rolled
                    /\ endT' = Inc(Dec(endT, <<o, "check">>), <<o, "retrace">>)
                    /\ UNCHANGED <<stopRequested, current_position, sigStopScan,
                                   queue, env, hist>>
               ELSE LET r == stop_scanning([Cur EXCEPT !.lp = rolled], TRUE, "final")
                    IN IF r.raised
                       THEN EndExcept(r, o, "check")
                       ELSE /\ Apply([r EXCEPT !.lp = <<0, 0>>])
                            /\ queue' = Append(queue, Sig("scan_line"))
                            /\ endT' = Dec(endT, <<o, "check">>)
    /\ UNCHANGED <<conf, sweep, module_state, pl_image, meas_mode, incr, image_size, scan_mode,
                   resolution, timer_set, hw, acqT, temp>>

\* return_h / return_v: the number of points of the return line, built from
\* self._return_X (self._return_Y) and padded with its last element
return_line(o, img) == IF o = "h" THEN img.ret[1] ELSE img.ret[2]

\* return_h / return_v: the retrace line returns; its samples (a -1 too) are dropped
\*   ok, sentinel: sigNextLine   exc: the except branch
pix_end_retrace(o) ==
    /\ endT[<<o, "retrace">>] > 0
    /\ \E out \in Outcomes({"sentinel", "exc"}) :
         IF return_line(o, pl_image) = 0
         THEN \* lsx[-1] of the empty array: IndexError, nothing is handed over
              out = "ok" /\ EndExcept(Cur, o, "retrace")
         ELSE IF out = "exc"
         THEN EndExcept([Cur EXCEPT !.h = Faulted(@, out), !.e = Spend(@, out)], o, "retrace")
         ELSE /\ queue' = Append(queue, Sig("scan_line"))
              /\ endT' = Dec(endT, <<o, "retrace">>)
              /\ hist' = Faulted(hist, out)
              /\ env' = Spend(env, out)
              /\ UNCHANGED <<stopRequested, line_position, current_position, sigStopScan>>
    /\ UNCHANGED <<conf, sweep, module_state, pl_image, meas_mode, incr, image_size, scan_mode,
                   resolution, timer_set, hw, acqT, temp>>

----------------------------------------------------------------------------
(* Configuration and positioning commands *)

\* the GUI emits sigMeasModeChanged(mode), queued to the logic thread; its radio
\* buttons stay enabled during a scan
UserSetMode(m) ==
    /\ env.events > 0
    /\ queue' = Append(queue, [sig |-> "set_meas_mode", a |-> 0, b |-> 0, m |-> m])
    /\ env' = [env EXCEPT !.events = @ - 1]
    /\ UNCHANGED <<conf, sweep, module_state, stopRequested, line_position, current_position,
                   pl_image, meas_mode, incr, image_size, scan_mode, resolution,
                   timer_set, hw, acqT, endT, sigStopScan, temp, hist>>

\* set_meas_mode: the mode, image_size and incr, and initialize_image; the state
\* of the module is not tested
set_meas_mode ==
    /\ Next1("set_meas_mode")
    /\ meas_mode' = Head(queue).m
    /\ image_size' = ImageSizeOf(Head(queue).m)
    /\ incr' = IncrOf(Head(queue).m)
    /\ pl_image' = initialize_image(resolution, ImageSizeOf(Head(queue).m))
    /\ queue' = Tail(queue)
    /\ hist' = Unshown(hist)
    /\ UNCHANGED <<conf, sweep, module_state, stopRequested, line_position, current_position,
                   scan_mode, resolution, timer_set, hw, acqT, endT, sigStopScan,
                   temp, env>>

\* the length of the Python slice a[:k] of an axis of length n
SliceTo(k, n) == IF k < 0 THEN (IF n + k > 0 THEN n + k ELSE 0)
                 ELSE IF k > n THEN n ELSE k

\* plane_fit: the cells it fits, pl_image[:line_position[1]-1, :, 2] (_hpix) or
\* pl_image[:, :line_position[0]-1, 2] (_vpix)
PlaneCells(lp, img) ==
    IF scan_mode = "_hpix"
    THEN (0..SliceTo(lp[2] - 1, img.ny) - 1) \X (0..img.nx - 1)
    ELSE (0..img.ny - 1) \X (0..SliceTo(lp[1] - 1, img.nx) - 1)

\* the parameters of the plane a*x + b*y + c that leastsq fits
PlaneParams == 3

\* a value of the fitted plane that is not zero
PlaneSample == 2

\* plane_fit: leastsq raises with fewer cells than parameters; the plane fitted to
\* cells that are all zero is zero, any other fit gives some plane
plane_fit(lp, img) ==
    IF Cardinality(PlaneCells(lp, img)) < PlaneParams THEN {}
    ELSE IF \A p \in PlaneCells(lp, img) : img.px[p][3] = 0 THEN {0}
    ELSE {0, PlaneSample}

\* the cells correct_topo sets to zero after the subtraction
ZeroedCells(lp, img) ==
    {p \in DOMAIN img.px :
        \/ (IF scan_mode = "_hpix" THEN p[1] > lp[2] ELSE p[2] > lp[1])
        \/ (p[1] >= lp[2] /\ p[2] = lp[1])}

\* channel 2 with the plane of value c subtracted from pl_image[:, :, 2]
correct_topo_ch0(img, lp, c) ==
    [img EXCEPT !.corr = c,
                !.px = [p \in DOMAIN img.px |->
                          [img.px[p] EXCEPT ![1] = IF p \in ZeroedCells(lp, img) THEN 0
                                                   ELSE @ - c]]]

\* correct_topo on the image: topo_corr = plane; pl_image[:, :, 2] -= topo_corr;
\* then the zeroing
correct_topo_image(img, lp, c) ==
    [img EXCEPT !.corr = c,
                !.px = [p \in DOMAIN img.px |->
                          [img.px[p] EXCEPT ![3] = IF p \in ZeroedCells(lp, img) THEN 0
                                                   ELSE @ - c]]]

\* correct_topo('plane_fit'), called by the GUI thread (the correction button);
\* when plane_fit raises nothing is changed
correct_topo ==
    /\ env.events > 0
    /\ env' = [env EXCEPT !.events = @ - 1]
    /\ IF plane_fit(line_position, pl_image) = {}
       THEN UNCHANGED <<pl_image, hist>>
       ELSE \E c \in plane_fit(line_position, pl_image) :
               /\ pl_image' = correct_topo_image(pl_image, line_position, c)
               /\ hist' = PlotsUpdated(hist)
    /\ UNCHANGED <<conf, sweep, module_state, stopRequested, line_position, current_position,
                   meas_mode, incr, image_size, scan_mode, resolution, timer_set, hw,
                   queue, acqT, endT, sigStopScan, temp>>

\* the positions the operator asks for: the first pixel of the image, and a
\* place outside the image
Targets == {<<XOrigin, YOrigin>>, <<XOrigin - 1, YOrigin - 1>>}

\* the module state of the scanning device: nothing locks it
ScannerLocked == FALSE

\* moveto(x, y), called by the GUI thread: moveto_loop writes current_position
\* and calls scanner_set_position; no state is tested
moveto(p) ==
    /\ env.events > 0
    /\ p # current_position
    /\ env' = [env EXCEPT !.events = @ - 1]
    /\ current_position' = p
    /\ UNCHANGED <<conf, sweep, module_state, stopRequested, line_position, pl_image, meas_mode,
                   incr, image_size, scan_mode, resolution, timer_set, hw, queue,
                   acqT, endT, sigStopScan, temp, hist>>

\* set_position(x, y): refused when the scanning device is locked, else
\* current_position is written and change_position sends it to the hardware
set_position(p) ==
    /\ env.events > 0
    /\ p # current_position
    /\ env' = [env EXCEPT !.events = @ - 1]
    /\ current_position' = IF ScannerLocked THEN current_position ELSE p
    /\ UNCHANGED <<conf, sweep, module_state, stopRequested, line_position, pl_image, meas_mode,
                   incr, image_size, scan_mode, resolution, timer_set, hw, queue,
                   acqT, endT, sigStopScan, temp, hist>>

----------------------------------------------------------------------------
(* The scan parameters: the GUI emits sigRangeChanged, sigResChanged,         *)
(* sigRsChanged and sigClockChanged, queued to the logic thread               *)

\* what the operator enters: a width and a height, a resolution, a return
\* slowness, a time per pixel
ConfInputs ==
    {Ev("set_range", 0, 3), Ev("set_range", 3, 0), Ev("set_resolution", 3, 5),
     Ev("set_resolution", 4, 2), Ev("set_return_slowness", 5, 0),
     Ev("set_clock_frequency", 2, 0)}

\* change_range_params, change_resolution_params, change_rs_params,
\* change_time_params
UserConfigure ==
    /\ env.events > 0
    /\ \E ev \in ConfInputs : queue' = Append(queue, ev)
    /\ env' = [env EXCEPT !.events = @ - 1]
    /\ UNCHANGED <<conf, sweep, module_state, stopRequested, line_position,
                   current_position, pl_image, meas_mode, incr, image_size, scan_mode,
                   resolution, timer_set, hw, acqT, endT, sigStopScan, temp, hist>>

\* a setter that does not look at the state of the module
ConfigureUnlocked(c, res) ==
    /\ queue' = Tail(queue)
    /\ resolution' = res
    /\ conf' = [c EXCEPT !.duration = compute_scan_duration(c, res, sweep.line_number)]
    /\ hist' = [hist EXCEPT !.refused = @ \/ module_state = "locked"]
    /\ UNCHANGED <<sweep, module_state, stopRequested, line_position, current_position,
                   pl_image, meas_mode, incr, image_size, scan_mode, timer_set, hw,
                   acqT, endT, sigStopScan, temp, env>>

\* a setter: when the module is locked it logs a warning and changes nothing;
\* else the parameter is stored and the duration is computed anew
Configure(c, res) ==
    /\ queue' = Tail(queue)
    /\ IF module_state = "locked"
       THEN /\ hist' = [hist EXCEPT !.refused = TRUE]
            /\ UNCHANGED <<conf, resolution>>
       ELSE /\ resolution' = res
            /\ conf' = [c EXCEPT !.duration =
                                   compute_scan_duration(c, res, sweep.line_number)]
            /\ UNCHANGED hist
    /\ UNCHANGED <<sweep, module_state, stopRequested, line_position, current_position,
                   pl_image, meas_mode, incr, image_size, scan_mode, timer_set, hw,
                   acqT, endT, sigStopScan, temp, env>>

\* set_clock_frequency(time_clock): clock_frequency = 1 / time_clock
set_clock_frequency ==
    /\ Next1("set_clock_frequency")
    /\ Configure([conf EXCEPT !.clock_frequency = <<1, Head(queue).a>>], resolution)

\* set_range
set_range ==
    /\ Next1("set_range")
    /\ Configure([conf EXCEPT !.range = <<Head(queue).a, Head(queue).b>>], resolution)

\* set_resolution: an odd resolution is brought down by one
set_resolution ==
    /\ Next1("set_resolution")
    /\ LET x_res == Head(queue).a
           y_res == Head(queue).b
       IN Configure(conf, <<IF x_res % 2 = 1 THEN x_res - 1 ELSE x_res,
                            IF y_res % 2 = 1 THEN y_res - 1 ELSE y_res>>)

\* set_return_slowness
set_return_slowness ==
    /\ Next1("set_return_slowness")
    /\ Configure([conf EXCEPT !.return_slowness = Head(queue).a], resolution)

\* scanmode_changed: the GUI thread writes scan_mode of the logic itself and
\* emits sigResChanged with the resolution it shows
scanmode_changed(m) ==
    /\ env.events > 0
    /\ env' = [env EXCEPT !.events = @ - 1]
    /\ scan_mode' = m
    /\ queue' = Append(queue, Ev("set_resolution", resolution[1], resolution[2]))
    /\ UNCHANGED <<conf, sweep, module_state, stopRequested, line_position,
                   current_position, pl_image, meas_mode, incr, image_size,
                   resolution, timer_set, hw, acqT, endT, sigStopScan, temp, hist>>

----------------------------------------------------------------------------
(* The pixel loop of fullb: scan_pixel sweeps the window and reads the two    *)
(* frequencies, treat_data finds the dip and moves the window                  *)

\* what the operator enters: start and stop, the steps, the band, the threshold,
\* the sweeps per pixel, and the two frequencies of the iso-B read
WindowInputs == {568, 574, 580, 586}
StepInputs == {6, 12}
BandInputs == {<<560, 588>>, <<580, 586>>, <<600, 610>>}
ThresholdInputs == {6, 584}
SweepsInputs == {1, 2}
IsobInputs == {574, 580}

\* change_fullb_params: the GUI emits sigFullbChanged, set_sweep_parameters_fullb
\* runs in the logic thread between two pixels
change_fullb_params ==
    /\ env.events > 0
    /\ sweep.pc = "idle"
    /\ \E start \in WindowInputs, stop \in WindowInputs, step \in StepInputs,
          band \in BandInputs, threshold \in ThresholdInputs,
          number_sweeps \in SweepsInputs :
          sweep' = set_sweep_parameters_fullb(sweep, start, stop, band[1], band[2],
                                              step, StatusVars.mw_step_hf,
                                              number_sweeps, threshold)
    /\ env' = [env EXCEPT !.events = @ - 1]
    /\ UNCHANGED <<conf, module_state, stopRequested, line_position, current_position,
                   pl_image, meas_mode, incr, image_size, scan_mode, resolution,
                   timer_set, hw, queue, acqT, endT, sigStopScan, temp, hist>>

\* change_isob_params: sigIsobChanged, set_sweep_parameters_isob
change_isob_params ==
    /\ env.events > 0
    /\ sweep.pc = "idle"
    /\ \E freq1 \in IsobInputs, freq2 \in IsobInputs :
          sweep' = set_sweep_parameters_isob(sweep, freq1, freq2)
    /\ env' = [env EXCEPT !.events = @ - 1]
    /\ UNCHANGED <<conf, module_state, stopRequested, line_position, current_position,
                   pl_image, meas_mode, incr, image_size, scan_mode, resolution,
                   timer_set, hw, queue, acqT, endT, sigStopScan, temp, hist>>

\* the counts of a read
CountValues == {0, 1}

\* what get_odmr_counts(n) can return on channel 0: n counts, the first of which
\* is -1 when the hardware failed
ReadsOf(n) ==
    {[i \in 1..n |-> IF i = 1 THEN f ELSE r[i]] :
        f \in CountValues \cup {Sentinel}, r \in [2..n -> CountValues]}

\* the reads of the iso-B pair: counts, or the fault value first
IsobReads == {<<Sentinel, 0>>, <<1, 0>>}

\* new_counts after the reads rs[1], .., rs[k] were added up
RECURSIVE AddReads(_, _, _)
AddReads(rs, k, n) ==
    IF k = 1 THEN [i \in 1..n |-> rs[1][i]]
    ELSE [i \in 1..n |-> AddReads(rs, k - 1, n)[i] + rs[k][i]]

\* scan_odmr_line on its reads: get_odmr_counts once and number_sweeps - 1 times
\* more; None when new_counts[0, 0] == -1 (then stopRequested = True), else
\* new_counts / number_sweeps
scan_odmr_counts(rs, k, n) ==
    LET new_counts == AddReads(rs, k, n)
    IN IF new_counts[1] = Sentinel
       THEN [none |-> TRUE, sum |-> <<>>, den |-> k]
       ELSE [none |-> FALSE, sum |-> new_counts, den |-> k]

\* the settings of the iso-B read: the window of the ODMR logic is freq1, freq2
isob_settings(s) ==
    [s EXCEPT !.line_number = 2,
              !.odmr = [mw_start |-> s.freq1, mw_stop |-> s.freq2,
                        mw_step |-> s.freq2 - s.freq1]]

\* scan_pixel that leaves the settings of the iso-B read
keep_isob_settings(s) == s

\* "sets back the correct settings": the window of the ODMR logic is set from
\* self.mw_start, self.mw_step, self.mw_stop
restore_settings(s) ==
    [s EXCEPT !.odmr = [mw_start |-> s.mw_start, mw_stop |-> s.mw_stop,
                        mw_step |-> s.mw_step]]

\* the scan_pixel thread of fullb: line_number from the window of the ODMR
\* logic, the sweep, the second sweep when the first gave two samples (its call
\* of set_sweep_parameters_fullb has seven arguments for eight parameters:
\* TypeError), the iso-B read, the settings set back, sigScanPixelOver
scan_pixel_fullb ==
    /\ sweep.pc = "idle"
    /\ sweep.n < MaxPixels
    /\ IF sweep.odmr.mw_step = 0
       THEN \* the division raises
            /\ sweep' = [sweep EXCEPT !.pc = "dead", !.n = @ + 1, !.sweeps = 0]
            /\ UNCHANGED stopRequested
       ELSE LET n == line_number_of(sweep.odmr)
                k == sweep.number_sweeps
            IN \E rs \in [1..k -> ReadsOf(n)] :
               LET data == scan_odmr_counts(rs, k, n)
                   s1 == [sweep EXCEPT !.line_number = n, !.n = @ + 1, !.sweeps = 1,
                                       !.requested = n,
                                       !.used = [mw_start |-> sweep.odmr.mw_start,
                                                 mw_stop |-> sweep.odmr.mw_stop],
                                       !.tainted = \E j \in 1..k : rs[j][1] = Sentinel]
               IN IF data.none
                  THEN \* len(data[0]) of None raises
                       /\ sweep' = [s1 EXCEPT !.pc = "dead"]
                       /\ stopRequested' = TRUE
                  ELSE IF Len(data.sum) = 2
                  THEN \* the call of set_sweep_parameters_fullb raises
                       /\ sweep' = [s1 EXCEPT !.pc = "dead"]
                       /\ UNCHANGED stopRequested
                  ELSE \E ri \in [1..k -> IsobReads], emitted \in BOOLEAN :
                       LET data_isob == scan_odmr_counts(ri, k, 2)
                           s2 == restore_settings(isob_settings(s1))
                       IN /\ ~data_isob.none => emitted
                          /\ stopRequested' = (stopRequested \/ data_isob.none)
                          /\ sweep' = IF emitted
                                      THEN [s2 EXCEPT !.pc = "treat", !.data = data.sum,
                                                      !.den = data.den,
                                                      !.isob = ~data_isob.none]
                                      ELSE [s2 EXCEPT !.pc = "dead"]
    /\ UNCHANGED <<conf, module_state, line_position, current_position, pl_image, meas_mode,
                   incr, image_size, scan_mode, resolution, timer_set, hw, queue,
                   acqT, endT, sigStopScan, temp, env, hist>>

\* freq_list[i] of treat_data: np.linspace(mw_start, end_freq, num_steps + 1)
freq_list(s, i) == s.mw_start + i * s.mw_step

\* np.argmin of data[0] over the indices I: the first index of the least value
argmin(d, I) ==
    CHOOSE i \in I : \A j \in I : d[i + 1] < d[j + 1] \/ (d[i + 1] = d[j + 1] /\ i <= j)

\* the indices of freq_list inside [min_fullb, max_fullb]
band_indices(s, N) ==
    {i \in 0..N-1 : freq_list(s, i) <= s.max_fullb /\ freq_list(s, i) >= s.min_fullb}

\* the fullb branch of treat_data from esr_line on: [raised, s]
\*   esr_line[:, 1] = data[0] raises unless data[0] has N values (or one)
\*   data_isob[0] raises when data_isob is None
\*   the dip outside ]min_fullb, max_fullb[ is selected again among the indices of
\*   the band: data[0][i] raises past the end of data[0], np.argmin raises on
\*   no index at all
\*   the window is centred on the dip, with the span of freq_list; the step is
\*   mw_step when resonance_frequency - freq_min < threshold, else mw_step_hf
resonance_tracker(s) ==
    LET num_steps == Rint(s.mw_stop - s.mw_start, s.mw_step)
        N == num_steps + 1
        L == Len(s.data)
        indmin == argmin(s.data, 0..L-1)
        first == freq_list(s, indmin)
        again == first <= s.min_fullb \/ first >= s.max_fullb
        indices == band_indices(s, N)
        raised == \/ ~(L = N \/ L = 1)
                  \/ ~s.isob
                  \/ (again /\ (indices = {} \/ \E i \in indices : i >= L))
        freq_min == IF again THEN freq_list(s, argmin(s.data, indices)) ELSE first
        half == (freq_list(s, N - 1) - freq_list(s, 0)) \div 2
        o == [mw_start |-> freq_min - half, mw_stop |-> freq_min + half,
              mw_step |-> IF resonance_frequency - freq_min < s.threshold
                          THEN s.mw_step ELSE s.mw_step_hf]
    IN IF raised
       THEN [raised |-> TRUE, s |-> [s EXCEPT !.pc = "dead"]]
       ELSE [raised |-> FALSE,
             s |-> [s EXCEPT !.mw_start = o.mw_start, !.mw_stop = o.mw_stop,
                             !.odmr = o, !.line_number = line_number_of(o),
                             !.pc = "idle", !.data = <<>>, !.den = 1,
                             !.fresh = TRUE, !.freq_min = freq_min]]

\* treat_data of a fullb pixel
treat_data_fullb ==
    /\ sweep.pc = "treat"
    /\ sweep' = resonance_tracker(sweep).s
    /\ UNCHANGED <<conf, module_state, stopRequested, line_position, current_position,
                   pl_image, meas_mode, incr, image_size, scan_mode, resolution,
                   timer_set, hw, queue, acqT, endT, sigStopScan, temp, env, hist>>

----------------------------------------------------------------------------

Next ==
    \/ UserStart
    \/ UserStop
    \/ UserResume
    \/ start_scanning
    \/ start_scanner
    \/ resume_scanning
    \/ resume_scanner
    \/ stop_scanning_slot
    \/ scan_line
    \/ \E n \in 0..2 : scan_pixel_quenching(n)
    \/ scan_pixel_isob
    \/ scan_pixel_sweep
    \/ scan_pixel_twofreq
    \/ treat_data
    \/ move_after_scan_pixel
    \/ \E o \in {"h", "v"} : pix_end_incr(o)
    \/ \E o \in {"h", "v"} : pix_end_check(o)
    \/ \E o \in {"h", "v"} : pix_end_retrace(o)

Spec == Init /\ [][Next]_vars

\* One scan that is started once, is left alone by the operator and meets no
\* hardware failure
InitScan == Boot(ScanHalfX, ScanHalfY) /\ env = [events |-> 1, faults |-> 0]

NextScan ==
    \/ UserStart
    \/ start_scanning
    \/ start_scanner
    \/ scan_line
    \/ \E n \in 0..2 : scan_pixel_quenching(n)
    \/ scan_pixel_isob
    \/ scan_pixel_sweep
    \/ scan_pixel_twofreq
    \/ treat_data
    \/ move_after_scan_pixel
    \/ \E o \in {"h", "v"} : pix_end_incr(o)
    \/ \E o \in {"h", "v"} : pix_end_check(o)
    \/ \E o \in {"h", "v"} : pix_end_retrace(o)

SpecScan == InitScan /\ [][NextScan]_vars

\* The engine with its configuration and positioning commands, no hardware
\* failure. The image is the one allocated by set_meas_mode, or (quenching) the
\* one the GUI allocates when it is activated: initialize_image(4, 4). The
\* scanner rests off the first pixel of the image; moveto and set_position can
\* bring it there.
GuiImageSize == 4

InitOps ==
    /\ BootState(OpsHalfX, OpsHalfY)
    /\ resolution = <<2 * OpsHalfX, 2 * OpsHalfY>>
    /\ current_position = <<XOrigin - 1, YOrigin - 1>>
    /\ conf = ScanConf(resolution, ScanSweep.line_number)
    /\ pl_image \in {initialize_image(resolution, image_size)}
                    \cup (IF meas_mode = "quenching"
                          THEN {initialize_image(resolution, GuiImageSize)} ELSE {})
    /\ sweep = ScanSweep
    /\ env = [events |-> OpsEvents, faults |-> 0]

NextOps ==
    \/ Next
    \/ \E m \in Modes : UserSetMode(m)
    \/ set_meas_mode
    \/ correct_topo
    \/ \E p \in Targets : moveto(p)
    \/ \E p \in Targets : set_position(p)

SpecOps == InitOps /\ [][NextOps]_vars

\* The engine with the commands that set the scan parameters and the
\* orientation, no hardware failure. The image of 2 x 2 pixels spans a range of
\* 3 in both directions; the scanner rests off the first pixel.
InitConf ==
    /\ BootState(MaxHalfX, MaxHalfY)
    /\ resolution = <<2, 2>>
    /\ current_position = <<XOrigin - 1, YOrigin - 1>>
    /\ LET c == [ScanConf(resolution, ScanSweep.line_number) EXCEPT !.range = <<3, 3>>]
       IN conf = [c EXCEPT !.duration =
                             compute_scan_duration(c, resolution, ScanSweep.line_number)]
    /\ pl_image = initialize_image(resolution, image_size)
    /\ sweep = ScanSweep
    /\ env = [events |-> ConfEvents, faults |-> 0]

NextConf ==
    \/ Next
    \/ UserConfigure
    \/ set_clock_frequency
    \/ set_range
    \/ set_resolution
    \/ set_return_slowness
    \/ \E m \in ScanModes : scanmode_changed(m)

SpecConf == InitConf /\ [][NextConf]_vars

\* The pixel loop of fullb with its frequency window: the engine after
\* activation, the operator sets the parameters, the hardware reads what it reads
InitSweep ==
    /\ BootState(MaxHalfX, MaxHalfY)
    /\ meas_mode = "fullb"
    /\ scan_mode = "_hpix"
    /\ resolution = <<2, 2>>
    /\ current_position = <<XOrigin, YOrigin>>
    /\ conf = ScanConf(resolution, on_activate_sweep.line_number)
    /\ pl_image = initialize_image(resolution, image_size)
    /\ sweep = on_activate_sweep
    /\ env = [events |-> SweepEvents, faults |-> 0]

NextSweep ==
    \/ change_fullb_params
    \/ change_isob_params
    \/ scan_pixel_fullb
    \/ treat_data_fullb

SpecSweep == InitSweep /\ [][NextSweep]_vars

----------------------------------------------------------------------------
(* What the properties read *)

\* hardware operations executing in worker threads: pixel acquisitions and
\* retrace line-scans
OpsInFlight ==
    Count(acqT, AcqStages) + Count(endT, {<<o, "retrace">> : o \in {"h", "v"}})

\* sigNextLine emissions not yet handled by _scan_line
PendingSteps == Len(SelectSeq(queue, LAMBDA e : e.sig = "scan_line"))

\* events of the scan chain waiting in the queue, and its threads
ChainEvents == Len(SelectSeq(queue, LAMBDA e : e.sig \in {"scan_line", "treat_data", "move_after"}))
Threads == Count(acqT, AcqStages) + Count(endT, EndStages)

Running == module_state = "locked"
Idle == module_state = "idle"

----------------------------------------------------------------------------
(* C1 *)

\* C1: in every state of a running scan at most one hardware operation is
\* executing and at most one next-step request is pending.
C1_OneOperationOneStep ==
    Running => (OpsInFlight <= 1 /\ PendingSteps <= 1)

----------------------------------------------------------------------------
(* C2 *)

\* C2: start() while the controller is running (start_scanning and the
\* start_scanner it asks for) alters nothing: the cursor, the image, the
\* stopRequested flag and the scheduled steps are the same after as before.
C2_StartWhileRunningAltersNothing ==
    [][(Running /\ (start_scanning \/ start_scanner))
        => /\ line_position' = line_position
           /\ pl_image' = pl_image
           /\ stopRequested' = stopRequested
           /\ PendingSteps' = PendingSteps]_vars

----------------------------------------------------------------------------
(* C3 *)

\* C3: when a stop is requested on a running controller and no hardware call has
\* failed, the scan chain is alive (a step is queued or a worker thread runs), so
\* that the request is observed and the controller torn down: the module is
\* unlocked by the teardown of _scan_line only.
C3_StopIsObserved ==
    (Running /\ stopRequested /\ ~hist.fault) => (ChainEvents + Threads > 0)

----------------------------------------------------------------------------
(* C4 *)

\* the teardown of _scan_line runs; a scan_pixel thread is started; treat_data
\* writes the image
Teardown == Running /\ module_state' = "idle"
AcqBegins == hist'.nAcq > hist.nAcq
ImageWrite == treat_data /\ pl_image' # pl_image

\* C4: after the operator's stop or pause of a running scan, the teardown runs
\* when no hardware call is in flight, at most one acquisition begins between the
\* request and the teardown, and once the controller is paused no acquisition
\* begins and nothing is written to the image until it is running again.
C4_TeardownAfterInFlightCall ==
    [][/\ (Teardown /\ hist.cause = "user") => OpsInFlight = 0
       /\ (stopRequested' /\ hist'.cause = "user") => hist'.sinceStop <= 1
       /\ (AcqBegins \/ ImageWrite) => ~(Idle /\ hist.idle = "user")]_vars

----------------------------------------------------------------------------
(* C5 *)

\* nothing is queued and no worker thread runs
Quiescent == queue = <<>> /\ Threads = 0

\* C5: once the acquisition of a pixel has returned the -1 sentinel and the
\* engine has come to rest, the controller is Idle and stop(final=false) was
\* signalled.
C5_SentinelReachesIdle ==
    (hist.sentinel /\ Quiescent) => (Idle /\ sigStopScan.other > 0)

----------------------------------------------------------------------------
(* C6 *)

\* treat_data is handed the result of an acquisition that returned the sentinel
SentinelData == Next1("treat_data") /\ (Head(queue).a # Data \/ Head(queue).b = None)

\* C6: when the acquisition of a pixel returned the -1 sentinel, treat_data
\* writes no channel of any pixel and leaves the cursor where it is.
C6_SentinelWritesNothing ==
    [][(SentinelData /\ treat_data)
        => (pl_image' = pl_image /\ line_position' = line_position)]_vars

----------------------------------------------------------------------------
(* C7 *)

\* C7: the pause of a running scan (stop_scanning) and the resume
\* (resume_scanning, resume_scanner) leave the cursor and the image as they
\* are, at whatever point of the step the command is handled.
C7_PauseResumeKeepCursor ==
    [][((Running /\ stop_scanning_slot) \/ resume_scanning \/ resume_scanner)
        => (line_position' = line_position /\ pl_image' = pl_image)]_vars

----------------------------------------------------------------------------
(* C8 *)

\* the controller is idle because the operator paused a running scan
Paused == Idle /\ hist.idle = "user"

\* C8: resume_scanner outside the Paused state (running, idle with no scan
\* started, after a completed scan, after a fault) schedules no step and alters
\* nothing: not the module state, the hardware, the stop flag, the cursor or
\* the image.
C8_ResumeOnlyWhenPaused ==
    [][(resume_scanner /\ ~Paused)
        => /\ module_state' = module_state
           /\ hw' = hw
           /\ stopRequested' = stopRequested
           /\ PendingSteps' = PendingSteps
           /\ line_position' = line_position
           /\ pl_image' = pl_image]_vars

----------------------------------------------------------------------------
(* C9 *)

\* channels 0 and 1 of every cell hold the position grid
GridMatches ==
    \A y \in 0..pl_image.ny-1, x \in 0..pl_image.nx-1 :
        /\ pl_image.px[<<y, x>>][1] = XGrid(x)
        /\ pl_image.px[<<y, x>>][2] = YGrid(y)

----------------------------------------------------------------------------
(* C10 *)

\* the times pixel (y, x) was written: channel 2 is added to at every write
Writes(y, x) == pl_image.px[<<y, x>>][3] \div TopoSample

\* C10: a scan that meets no failure and is not stopped by the operator never
\* makes more than rows*cols/incr acquisitions, writes no pixel twice, calls
\* stop(final=true) at most once, and when the controller is back to Idle it has
\* made exactly rows*cols/incr acquisitions, written every pixel once, called
\* stop(final=true) once, and no step is pending and no thread runs.
C10_ScanTerminates ==
    /\ hist.nAcq <= ScanLength(pl_image, incr)
    /\ \A y \in 0..pl_image.ny-1, x \in 0..pl_image.nx-1 : Writes(y, x) <= 1
    /\ sigStopScan.final <= 1
    /\ (Idle /\ hist.idle # "fresh")
         => /\ Quiescent
            /\ hist.nAcq = ScanLength(pl_image, incr)
            /\ \A y \in 0..pl_image.ny-1, x \in 0..pl_image.nx-1 : Writes(y, x) = 1
            /\ sigStopScan.final = 1

----------------------------------------------------------------------------
(* C11 *)

\* C11: sigStopScan(True), on which the GUI saves the scan, is emitted only when
\* the teardown has run and the controller is Idle.
C11_FinalNotificationWhenIdle ==
    [][sigStopScan'.final > sigStopScan.final => module_state' = "idle"]_vars

----------------------------------------------------------------------------
(* C12 *)

\* C12: in every state the cursor is inside the image: 0 <= line_position[0] <
\* columns and 0 <= line_position[1] < rows.
C12_CursorInsideImage == InImage(line_position, pl_image)

----------------------------------------------------------------------------
(* C13 *)

\* channels 0 and 1 of an image
Grid(img) == [p \in DOMAIN img.px |-> <<img.px[p][1], img.px[p][2]>>]

\* C13: only the operations that call initialize_image (start_scanner,
\* set_meas_mode) change a cell of channel 0 or 1: no step of the scan, no
\* treat_data, no correct_topo, no pause, resume or stop does.
C13_GridWrittenByInitOnly ==
    [][~(start_scanner \/ set_meas_mode) => Grid(pl_image') = Grid(pl_image)]_vars

\* a scan has written data, a plane that is not zero was subtracted from the
\* topography, and channels 0 and 1 still hold the position grid
C13_Witness ==
    /\ pl_image.corr # 0
    /\ \E p \in DOMAIN pl_image.px : pl_image.px[p][4] # 0
    /\ GridMatches

----------------------------------------------------------------------------
(* C14 *)

\* the pixels after the cursor and the pixels acquired with it, in raster order
Unvisited(p, lp) ==
    IF scan_mode = "_hpix"
    THEN p[1] > lp[2] \/ (p[1] = lp[2] /\ p[2] >= lp[1] + incr)
    ELSE p[2] > lp[1] \/ (p[2] = lp[1] /\ p[1] >= lp[2] + incr)

\* C14: after correct_topo, applied at any cursor position in either
\* orientation, the corrected topography (channel 2) is 0 at every pixel the
\* scan has not visited yet, the rest of the current line included.
C14_UnvisitedZeroAfterCorrection ==
    [][correct_topo
        => \A p \in DOMAIN pl_image.px :
              Unvisited(p, line_position) => pl_image'.px[p][3] = 0]_vars

----------------------------------------------------------------------------
(* C15 *)

\* the pixels at or after the cursor, in raster order
AtOrAfter(p, lp) ==
    IF scan_mode = "_hpix"
    THEN p[1] > lp[2] \/ (p[1] = lp[2] /\ p[2] >= lp[1])
    ELSE p[2] > lp[1] \/ (p[2] = lp[1] /\ p[1] >= lp[2])

\* C15: within one scan pixels are stored in strict raster order: when
\* treat_data stores the pixel(s) at the cursor, no pixel at or after the cursor
\* in raster order has been stored in this scan (the image is allocated anew at
\* the start of a scan).
C15_StoredInRasterOrder ==
    [][ImageWrite
        => \A p \in DOMAIN pl_image.px :
              AtOrAfter(p, line_position) => Writes(p[1], p[2]) = 0]_vars

----------------------------------------------------------------------------
(* C16 *)

\* the data channels (index >= 2) of every cell are zero
DataChannelsZero(img) ==
    \A p \in DOMAIN img.px : \A c \in 3..img.nch : img.px[p][c] = 0

\* C16: in every state the mode, the channel count of the allocated image and
\* incr are (quenching, 5, 2), (isob, 7, 1) or (fullb, 8, 1), and set_meas_mode
\* on an idle controller leaves an image of the new channel count whose data
\* channels are all zero.
C16_ModeChannelsIncr ==
    [][/\ pl_image.nch = ImageSizeOf(meas_mode) /\ incr = IncrOf(meas_mode)
       /\ pl_image'.nch = ImageSizeOf(meas_mode') /\ incr' = IncrOf(meas_mode')
       /\ (set_meas_mode /\ Idle) => DataChannelsZero(pl_image')]_vars

----------------------------------------------------------------------------
(* C17 *)

\* start_scanner finds the module idle and locks it
StartSucceeds == start_scanner /\ Idle /\ module_state' = "locked"

\* C17: after a successful start from Idle the cursor is (0, 0), the image is
\* the freshly allocated image of the mode and resolution (data channels zero),
\* the clock and the scanner are armed, in isob and fullb the counter and the
\* microwave too, and exactly one step is scheduled.
C17_StartPostcondition ==
    [][StartSucceeds
        => /\ line_position' = <<0, 0>>
           /\ pl_image' = initialize_image(resolution, ImageSizeOf(meas_mode))
           /\ hw'.clock /\ hw'.scanner
           /\ (meas_mode # "quenching" => (hw'.counter /\ hw'.mw))
           /\ PendingSteps' = 1]_vars

----------------------------------------------------------------------------
(* C18 *)

\* a move-to or set-position request of the operator
PositionRequest == \E p \in Targets : moveto(p) \/ set_position(p)

\* C18: a moveto or set_position request made while the controller is Running
\* or Paused sends nothing to the positioner: the scanner stays where it is.
C18_NoPositioningDuringSession ==
    [][(PositionRequest /\ (Running \/ Paused))
        => current_position' = current_position]_vars

----------------------------------------------------------------------------
(* C19 *)

\* C19: when the move to the pixel of the cursor has failed (move_hpix or
\* move_vpix returned -1) the controller does not stay Running with no step
\* scheduled: a stop is requested and a step is pending to observe it, or the
\* controller is Idle.
C19_MoveFaultStops ==
    (hist.moveFault /\ Running) => (stopRequested /\ ChainEvents + Threads > 0)

----------------------------------------------------------------------------
(* C20 *)

\* C20: whenever the controller is Idle the scanner and its clock are closed,
\* the microwave is off and the counter is stopped.
C20_IdleMeansDisarmed ==
    Idle => (~hw.clock /\ ~hw.scanner /\ ~hw.mw /\ ~hw.counter)

----------------------------------------------------------------------------
(* C21 *)

\* C21: the image delivered with an image-updated notification is a snapshot:
\* once the GUI was handed the array, the contents it sees through it never
\* change, whatever the control loop writes afterwards (a start or a change of
\* mode binds self.pl_image to a new array and leaves the one handed out alone).
C21_PublishedImageIsSnapshot ==
    [][(hist.shown /\ hist'.shown) => pl_image'.px = pl_image.px]_vars

----------------------------------------------------------------------------
(* C22 *)

\* the number of points of the window as treat_data expects them (its N)
ExpectedSize(s) == Rint(s.mw_stop - s.mw_start, s.mw_step) + 1

\* a sweep of a pixel returned samples (no fault value), but not as many as
\* the window has points
SweepMismatch ==
    /\ sweep'.n = sweep.n + 1
    /\ sweep'.sweeps >= 1
    /\ ~sweep'.tainted
    /\ sweep'.requested # ExpectedSize(sweep)

\* C22: in fullb, when the sweep of a pixel returns a number of samples that
\* differs from the size of the window, the window is computed again and the
\* same pixel is swept a second time (once).
C22_MismatchRetriedOnce ==
    [][SweepMismatch => sweep'.sweeps = 2]_vars

----------------------------------------------------------------------------
(* C23 *)

\* C23: for every number of sweeps, when one of the reads of a pixel's sweep
\* held the fault value -1 at [0, 0], the fault is fatal (the stop is requested
\* and the pixel loop ends): the averaged counts are never handed on as data.
C23_SentinelReadIsFatal ==
    sweep.tainted => (stopRequested /\ sweep.pc = "dead")

----------------------------------------------------------------------------
(* C24 *)

\* treat_data ran to its end: the tracker moved the window
TrackerStep == sweep.pc = "treat" /\ sweep'.pc = "idle"

\* C24: the tracker keeps the width of the window: for the dip f it selects,
\* start' = f - (stop - start)/2 and stop' = f + (stop - start)/2, also when
\* stop - start is not a whole multiple of the step.
C24_TrackerKeepsWidth ==
    [][TrackerStep =>
         /\ 2 * sweep'.mw_start = 2 * sweep'.freq_min - (sweep.mw_stop - sweep.mw_start)
         /\ 2 * sweep'.mw_stop = 2 * sweep'.freq_min + (sweep.mw_stop - sweep.mw_start)]_vars

----------------------------------------------------------------------------
(* C25 *)

\* C25: the step of the next sweep is the fine step exactly when
\* |resonance_frequency - freq_min| < threshold, and the coarse step otherwise,
\* for dips below and above the reference frequency.
C25_StepByDistance ==
    [][TrackerStep =>
         LET d == resonance_frequency - sweep'.freq_min
             near == (IF d < 0 THEN -d ELSE d) < sweep.threshold
         IN sweep'.odmr.mw_step = IF near THEN sweep.mw_step ELSE sweep.mw_step_hf]_vars

----------------------------------------------------------------------------
(* C26 *)

\* treat_data is handed a spectrum of the size of the window and the iso-B pair
TreatsSpectrum ==
    sweep.pc = "treat" /\ sweep'.pc # "treat"
    /\ Len(sweep.data) = ExpectedSize(sweep) /\ sweep.isob

\* C26: the dip the tracker centres the window on lies within
\* [min_fullb, max_fullb], and the tracker has a defined outcome (it runs to its
\* end) also when no sample of the sweep lies inside the band.
C26_DipInsideBand ==
    [][TreatsSpectrum =>
         /\ sweep'.pc = "idle"
         /\ sweep'.freq_min >= sweep.min_fullb
         /\ sweep'.freq_min <= sweep.max_fullb]_vars

----------------------------------------------------------------------------
(* C27 *)

\* C27: in fullb, for a pixel swept with the window and the step the tracker
\* selected after the pixel before it, the number of frequency points treat_data
\* interprets the spectrum with equals the number of samples asked for in the
\* sweep.
C27_PointsMatchSamples ==
    (sweep.pc = "treat" /\ sweep.fresh) => ExpectedSize(sweep) = sweep.requested

----------------------------------------------------------------------------
(* C28 *)

\* C28: the window a pixel is swept with is the window the tracker computed
\* from the pixel before it, and the iso-B read of the pixel leaves the start
\* and the stop of the sweep window as the tracker set them.
C28_SweepUsesTrackedWindow ==
    [][(sweep'.n = sweep.n + 1 /\ sweep.fresh /\ sweep'.sweeps >= 1) =>
         /\ sweep'.used = [mw_start |-> sweep.mw_start, mw_stop |-> sweep.mw_stop]
         /\ sweep'.pc = "treat" =>
               /\ sweep'.odmr.mw_start = sweep.mw_start
               /\ sweep'.odmr.mw_stop = sweep.mw_stop]_vars

\* a second pixel was swept and its two frequencies read, after the tracker
\* moved the window away from where the operator set it and from the two
\* frequencies
C28_Witness ==
    /\ sweep.n = 2 /\ sweep.pc = "treat" /\ sweep.fresh
    /\ sweep.used.mw_start = sweep.mw_start
    /\ sweep.mw_start # sweep.freq1
    /\ sweep.mw_start \notin WindowInputs

----------------------------------------------------------------------------
(* C29 *)

\* C29: the frequency window has start < stop in every reachable state: after
\* set_sweep_parameters_fullb with any start and stop (stop < start and
\* stop = start too) and after every update of the tracker.
C29_StartBelowStop ==
    sweep.mw_start < sweep.mw_stop

----------------------------------------------------------------------------
(* C30 *)

\* retrace line-scans (return_h / return_v) in flight
Retraces == Count(endT, {<<o, "retrace">> : o \in {"h", "v"}})

\* the cursor goes over a line boundary to a next line of the image
NextLine ==
    \E o \in {"h", "v"} :
        /\ endT'[<<o, "check">>] < endT[<<o, "check">>]
        /\ Slow(o, line_position') = Slow(o, line_position) + 1
        /\ Slow(o, line_position') < SlowSize(o, pl_image)

\* C30: during a scan one retrace is issued at each crossing of a line boundary
\* that is followed by another line and nowhere else (none after the last
\* line), an acquisition begins only when no retrace is in flight, and the
\* return of a retrace writes nothing to the image.
C30_OneRetracePerLine ==
    [][/\ Retraces' = Retraces + 1 <=> NextLine
       /\ Retraces' <= Retraces + 1
       /\ AcqBegins => Retraces = 0
       /\ Retraces' < Retraces => pl_image' = pl_image]_vars


----------------------------------------------------------------------------
(* C38 *)

\* C38: whenever the controller is Idle and no step is pending, stopRequested
\* is false (a stop request never carries over to the next scan).
C38_IdleHasNoStopRequest == (Idle /\ PendingSteps = 0) => ~stopRequested


----------------------------------------------------------------------------
(* C35 *)

\* an arming step of start_scanner or resume_scanner fails
ArmingFails ==
    /\ queue # <<>> /\ Head(queue).sig \in {"start_scanner", "resume_scanner"}
    /\ queue' = Tail(queue)
    /\ env'.faults < env.faults

\* C35: when an arming step of start() or resume() fails, the controller is Idle
\* afterwards, it was unlocked exactly once, and no step is scheduled.
C35_FailedArmingUnlocksOnce ==
    [][ArmingFails => /\ module_state' = "idle"
                      /\ hist'.unlocks = 1
                      /\ PendingSteps' = PendingSteps]_vars


----------------------------------------------------------------------------
(* C33 *)

\* C33: when correct_topo is applied at a cursor position at which at least one
\* pixel has been visited, in either orientation, the set of pixels the plane
\* fit uses is not empty and holds only pixels the scan has visited.
C33_PlaneFitUsesVisitedOnly ==
    [][(correct_topo /\ line_position # <<0, 0>>)
        => /\ PlaneCells(line_position, pl_image) # {}
           /\ \A p \in PlaneCells(line_position, pl_image) :
                 ~Unvisited(p, line_position)]_vars


----------------------------------------------------------------------------
(* C34 *)

\* C34: in fullb the scratch spectrum log changes in two ways only: the start
\* of a fullb scan empties it, and the commit of a pixel appends one record
\* tagged with the (x, y) position of that pixel; every committed pixel appends
\* its record (so the log is kept over pause and resume and holds one record
\* per committed pixel, in the order of the commits).
C34_SpectrumLogAppendOnly ==
    [][LET emptied == Next1("start_scanning") /\ meas_mode = "fullb" /\ temp' = <<>>
           appended == /\ ImageWrite
                       /\ InImage(line_position, pl_image)
                       /\ temp' = Append(temp, PosAt(line_position, pl_image))
       IN /\ temp' # temp => (emptied \/ appended)
          /\ (meas_mode = "fullb" /\ ImageWrite) => appended]_vars


----------------------------------------------------------------------------
(* C36 *)

\* C36: while the controller is Running, set_range, set_resolution,
\* set_return_slowness and set_clock_frequency leave the range, the resolution,
\* the return slowness, the clock frequency and the duration as they are.
C36_SettersRefusedWhileRunning ==
    [][(/\ Running
        /\ queue # <<>>
        /\ Head(queue).sig \in {"set_range", "set_resolution", "set_return_slowness",
                                "set_clock_frequency"}
        /\ queue' = Tail(queue))
        => conf' = conf /\ resolution' = resolution]_vars

\* a setter was refused, and the scan runs with the parameters it was started with
C36_Witness ==
    /\ hist.refused
    /\ Running
    /\ hist.nAcq > 0
    /\ conf.range = <<3, 3>> /\ conf.return_slowness = 1
    /\ conf.clock_frequency = <<1, 1>> /\ resolution = <<2, 2>>


----------------------------------------------------------------------------
(* C37 *)

\* C37: the resolution stored is even in both directions, and in quenching the
\* fast-axis index of the cursor is even and no acquisition runs on a slice that
\* is cut by the end of the line (the two pixels at the cursor are inside it).
C37_QuenchingCursorEven ==
    /\ resolution[1] % 2 = 0 /\ resolution[2] % 2 = 0
    /\ meas_mode = "quenching"
         => /\ (IF scan_mode = "_hpix" THEN line_position[1] ELSE line_position[2]) % 2 = 0
            /\ acqT["pix0"] = 0 /\ acqT["pix1"] = 0


----------------------------------------------------------------------------
(* C32 *)

\* C32: a change of the scan orientation requested while the scan is Running
\* or Paused does not affect that scan: the thread that advances the cursor of
\* a running scan is the one of the orientation the scan was started with.
C32_OrientationFixedDuringScan ==
    [][\A o \in {"h", "v"} :
          (Running /\ endT'[<<o, "incr">>] > endT[<<o, "incr">>])
             => hist.orient = (IF o = "h" THEN "_hpix" ELSE "_vpix")]_vars


----------------------------------------------------------------------------
(* C31 *)

\* C31: the path of the initial positioning (reset_position at the cursor
\* (0, 0)) and the path of a retrace (return_h, return_v) hold at least one
\* point; the positioning path is a single point when the scanner is on the
\* first pixel, and the retrace path is a single point when the range along
\* its axis is smaller than the return slowness.
C31_PathsAreNotEmpty ==
    [][/\ (scan_line /\ timer_set /\ ~stopRequested /\ line_position = <<0, 0>>)
          => /\ start_line(current_position, pl_image) >= 1
             /\ current_position = PosAt(<<0, 0>>, pl_image)
                  => start_line(current_position, pl_image) = 1
       /\ \A o \in {"h", "v"} :
            endT'[<<o, "retrace">>] < endT[<<o, "retrace">>]
               => /\ return_line(o, pl_image) >= 1
                  /\ PosAt(<<pl_image.nx - 1, pl_image.ny - 1>>, pl_image)[IF o = "h" THEN 1 ELSE 2]
                       - PosAt(<<0, 0>>, pl_image)[IF o = "h" THEN 1 ELSE 2]
                         < conf.return_slowness
                       => return_line(o, pl_image) = 1]_vars


====
